---- MODULE Spec2Model ----
(***************************************************************************)
(* A model of the casteel_creek scraper (src/src/main.rs): one run of main *)
(* is a straight-line pipeline                                             *)
(*   create_dir_all -> Client::build -> get_html -> write page.html        *)
(*   -> extract_unique_image_links / extract_metadata -> save_metadata     *)
(*   -> download loop (download_file, sleep) -> Ok(())                     *)
(* and the file system outlives the process, so a second run of the same   *)
(* command line starts from what the first one left on disk.               *)
(*                                                                         *)
(* A page is the sequence of its text fragments that the three regular     *)
(* expressions of the program match.  The network and the file system are  *)
(* the environment: each request and each write chooses its outcome.       *)
(***************************************************************************)
EXTENDS Integers, Sequences, FiniteSets, TLC

\* The longest page, in fragments.
MaxLen == 2

\* Option<T>
None == <<>>
Some(x) == <<x>>

-----------------------------------------------------------------------------
(* Inputs *)

CompassUrl == "https://www.compass.com/listing/1"
ZillowUrl  == "https://www.zillow.com/homedetails/1"
OtherUrl   == "https://example.com/listing/1"
LocalPath  == "saved/page.html"

\* the values of --url
Urls == {CompassUrl, ZillowUrl, OtherUrl, LocalPath}

\* the values of --delay (u64 seconds)
Delays == {0, 2}

\* url_or_path.starts_with("http")
StartsWithHttp(url_or_path) == url_or_path \in {CompassUrl, ZillowUrl, OtherUrl}

\* Fragments matched by IMAGE_LINK_RE: a quoted https URL ending in origin.webp.
\* The fragment is named by its capture group 1.
LinkA == "https://img.example/a/origin.webp"
LinkB == "https://img.example/b/origin.webp"
ImageLinks == {LinkA, LinkB}

\* A row of the price history table, matched by PRICE_RE.
PriceRow == "propertyHistory-table-td'><div>$450,000</div></td></tr>"
\* A listing page title, matched by ST_CITY_STATE_ZIP_RE.
CompassTitle == "<title>1 Main St, Vail, CO 81657 | MLS #12345 | Compass</title>"

\* The text of a page that none of the three expressions matches has no effect
\* on a run and is left out of the fragments.
Fragments == ImageLinks \cup {PriceRow, CompassTitle}

RECURSIVE SeqsUpTo(_, _)
SeqsUpTo(S, n) ==
    IF n = 0 THEN {<<>>}
    ELSE LET shorter == SeqsUpTo(S, n - 1)
         IN  shorter \cup {Append(s, x) : s \in {t \in shorter : Len(t) = n - 1}, x \in S}

Pages == SeqsUpTo(Fragments, MaxLen)

\* The bodies an image URL may be answered with.
Bodies == {"webp-1", "webp-2"}

-----------------------------------------------------------------------------
(* Pure functions *)

Range(s) == {s[k] : k \in DOMAIN s}

\* IMAGE_LINK_RE.captures_iter(html).map(|cap| cap[1]): every match, in page order
IMAGE_LINK_RE_captures_iter(html) == SelectSeq(html, LAMBDA f : f \in ImageLinks)

\* The orders a HashSet of the given elements may be iterated in: the hasher is
\* seeded per process, so every order of the distinct elements can come out.
HashSetIterOrders(S) ==
    {s \in [1..Cardinality(S) -> S] : Range(s) = S}

\* extract_unique_image_links collecting the matches straight into the Vec
ExtractLinksWithoutSet(html) == {IMAGE_LINK_RE_captures_iter(html)}

\* extract_unique_image_links: the Vec that collect() may produce
extract_unique_image_links(html) ==
    HashSetIterOrders(Range(IMAGE_LINK_RE_captures_iter(html)))

\* PRICE_RE.captures(html): the groups of the leftmost match; group 1 is [0-9,]+
PRICE_RE_captures(html) ==
    IF \E k \in DOMAIN html : html[k] = PriceRow
    THEN Some(<<Some("450,000")>>)
    ELSE None

\* ST_CITY_STATE_ZIP_RE.captures(html): the groups 1..5 of the leftmost match.
\* No group is optional in the expression, so each one takes part in a match.
ST_CITY_STATE_ZIP_RE_captures(html) ==
    IF \E k \in DOMAIN html : html[k] = CompassTitle
    THEN Some(<<Some("1 Main St"), Some("Vail"), Some("CO"), Some("81657"), Some("12345")>>)
    ELSE None

\* PropertyMetadata as extract_metadata first builds it
NewPropertyMetadata(url, num_images) ==
    [url         |-> "URL: " \o url,
     description |-> None,
     street      |-> None,
     city        |-> None,
     state       |-> None,
     zip         |-> None,
     mls         |-> None,
     price       |-> None,
     num_images  |-> Some("Number of unique images found: " \o ToString(num_images))]

\* if let Some(caps) = PRICE_RE.captures(html) { if let Some(price) = caps.get(1) {..} }
WithPrice(md, html) ==
    LET caps == PRICE_RE_captures(html) IN
    IF caps # None /\ caps[1][1] # None
    THEN [md EXCEPT !.price = Some("Price: $" \o caps[1][1][1])]
    ELSE md

\* The address lookup nested inside the price lookup's if-let
WithAddressInsidePrice(md, html) ==
    LET caps == ST_CITY_STATE_ZIP_RE_captures(html) IN
    IF md.price # None /\ caps # None
    THEN [md EXCEPT !.street = Some("Street: " \o caps[1][1][1]),
                    !.city   = Some("City: "   \o caps[1][2][1]),
                    !.state  = Some("State: "  \o caps[1][3][1]),
                    !.zip    = Some("Zip: "    \o caps[1][4][1]),
                    !.mls    = Some("MLS: "    \o caps[1][5][1])]
    ELSE md

\* if let Some(caps) = ST_CITY_STATE_ZIP_RE.captures(html) { if let (Some(..) x 5) = .. {..} }
WithAddress(md, html) ==
    LET caps == ST_CITY_STATE_ZIP_RE_captures(html) IN
    IF caps # None /\ \A g \in 1..5 : caps[1][g] # None
    THEN [md EXCEPT !.street = Some("Street: " \o caps[1][1][1]),
                    !.city   = Some("City: "   \o caps[1][2][1]),
                    !.state  = Some("State: "  \o caps[1][3][1]),
                    !.zip    = Some("Zip: "    \o caps[1][4][1]),
                    !.mls    = Some("MLS: "    \o caps[1][5][1])]
    ELSE md

extract_metadata(html, url, num_images) ==
    WithAddress(WithPrice(NewPropertyMetadata(url, num_images), html), html)

\* images_dir.join(format!("{}-{}.webp", args.name, i + 1)): the path is named
\* by its number, <name>-<n>.webp, for the 0-based position i of enumerate()
file_path(i) == i + 1

\* What a failed fs::write may leave at its path: nothing new (the file could
\* not be created), or a file created and truncated but not filled.
FailedWrite(old, empty) == {old, Some(empty)}

\* An empty page.html and an empty info.txt
EmptyPage == <<>>
EmptyInfo == [json |-> ""]

-----------------------------------------------------------------------------
(* State *)

VARIABLES
    args,         \* the command line: url, skip_images, delay
    page,         \* what the source URL or path holds
    run,          \* "first" or "second" run of the same command line
    pc,           \* the position of main
    exit_code,    \* None while running, then Some(0) (Ok) or Some(1) (Err)
    dirs,         \* whether <output>/<name>/images/ exists
    page_html,    \* <output>/<name>/page.html: None or Some(content)
    info_txt,     \* <output>/<name>/info.txt: None or Some(metadata)
    images,       \* <output>/<name>/images/: file number -> content
    fetched,      \* how get_html ended in this run
    html,         \* main's html
    image_links,  \* main's image_links
    property_metadata, \* main's property_metadata
    i,            \* the loop's enumerate() position
    trace,        \* the side effects of this run, in order
    first_run     \* what the first run did, kept for comparing the second to it

vars == <<args, page, run, pc, exit_code, dirs, page_html, info_txt, images,
          fetched, html, image_links, property_metadata, i, trace, first_run>>

disk == <<dirs, page_html, info_txt, images>>
locals == <<html, image_links, property_metadata, i>>

Event(op, link, n, res) == [op |-> op, link |-> link, n |-> n, res |-> res]

NoMetadata == NewPropertyMetadata("", 0)

\* The events of this run with the given operation, in order
Events(op) == SelectSeq(trace, LAMBDA e : e.op = op)
Did(op) == Events(op) # <<>>

Init ==
    /\ args \in [url : Urls, skip_images : BOOLEAN, delay : Delays]
    /\ page \in Pages
    /\ run = "first"
    /\ pc = "create_dirs"
    /\ exit_code = None
    /\ dirs = FALSE
    /\ page_html = None
    /\ info_txt = None
    /\ images = <<>>
    /\ fetched = "none"
    /\ html = <<>>
    /\ image_links = <<>>
    /\ property_metadata = NoMetadata
    /\ i = 0
    /\ trace = <<>>
    /\ first_run = [image_links |-> <<>>, images |-> <<>>, extracted |-> FALSE]

\* main returns Err through `?`: the process exits non-zero
Abort ==
    /\ pc' = "exited"
    /\ exit_code' = Some(1)

\* fs::create_dir_all(&images_dir).await.context(..)?
CreateDirs ==
    /\ pc = "create_dirs"
    /\ \E ok \in BOOLEAN :
        IF ok
        THEN /\ dirs' = TRUE
             /\ trace' = Append(trace, Event("mkdir", "", 0, "ok"))
             /\ pc' = "build_client"
             /\ UNCHANGED exit_code
        ELSE /\ Abort
             /\ UNCHANGED <<dirs, trace>>
    /\ UNCHANGED <<args, page, run, page_html, info_txt, images, fetched, locals, first_run>>

\* Client::builder().user_agent(..).timeout(..).build()?
BuildClient ==
    /\ pc = "build_client"
    /\ \E ok \in BOOLEAN :
        IF ok
        THEN pc' = "get_html" /\ UNCHANGED exit_code
        ELSE Abort
    /\ UNCHANGED <<args, page, run, disk, fetched, locals, trace, first_run>>

\* How get_html(client, url_or_path) can end.  Over HTTP: send() fails; or a
\* response arrives, with a success status or not, and text() reads its body or
\* fails.  From a file: read_to_string fails or returns the content.
GetHtmlOutcomes(url_or_path) ==
    IF StartsWithHttp(url_or_path)
    THEN {"send_err", "text_err", "status_success", "status_not_success"}
    ELSE {"read_err", "read_ok"}

\* The outcomes for which get_html returns Ok(text)
GetHtmlOk(outcome) == outcome \in {"status_success", "status_not_success", "read_ok"}

\* let html = get_html(&client, &args.url).await?;
GetHtml ==
    /\ pc = "get_html"
    /\ \E outcome \in GetHtmlOutcomes(args.url) :
        /\ fetched' = outcome
        /\ IF GetHtmlOk(outcome)
           THEN /\ html' = page
                /\ pc' = "write_page"
                /\ UNCHANGED exit_code
           ELSE /\ Abort
                /\ UNCHANGED html
    /\ UNCHANGED <<args, page, run, disk, image_links, property_metadata, i, trace, first_run>>

\* fs::write(&html_path, &html).await.context("Failed to save HTML file")?
WritePage ==
    /\ pc = "write_page"
    /\ \E ok \in BOOLEAN :
        IF ok
        THEN /\ page_html' = Some(html)
             /\ trace' = Append(trace, Event("write_page", "", 0, "ok"))
             /\ pc' = "extract"
             /\ UNCHANGED exit_code
        ELSE /\ page_html' \in FailedWrite(page_html, EmptyPage)
             /\ Abort
             /\ UNCHANGED trace
    /\ UNCHANGED <<args, page, run, dirs, info_txt, images, fetched, locals, first_run>>

\* The URL contains one of the site markers "compass" and "zillow".  The
\* program has no such test; the properties below state it.
ContainsSiteMarker(url) == url \in {CompassUrl, ZillowUrl}

\* Extract with a site check in front of it: a URL of no known site is an error
ExtractRejectingUnknownSites ==
    /\ pc = "extract"
    /\ IF ContainsSiteMarker(args.url)
       THEN /\ \E links \in extract_unique_image_links(html) :
                /\ image_links' = links
                /\ property_metadata' = extract_metadata(html, args.url, Len(links))
            /\ pc' = "save_metadata"
            /\ UNCHANGED exit_code
       ELSE /\ Abort
            /\ UNCHANGED <<image_links, property_metadata>>
    /\ UNCHANGED <<args, page, run, disk, fetched, html, i, trace, first_run>>

\* let image_links = extract_unique_image_links(&html);
\* let property_metadata = extract_metadata(&html, &args.url, image_links.len());
Extract ==
    /\ pc = "extract"
    /\ \E links \in extract_unique_image_links(html) :
        /\ image_links' = links
        /\ property_metadata' = extract_metadata(html, args.url, Len(links))
    /\ pc' = "save_metadata"
    /\ UNCHANGED <<args, page, run, exit_code, disk, fetched, html, i, trace, first_run>>

\* The branch of lines 190-192 without its first arm
AfterMetadataIgnoringSkip(skip_images, links) ==
    IF links # <<>> THEN "download" ELSE "complete"

\* What main does after save_metadata succeeded (lines 190-192): nothing more
\* with --skip-images or with no link, else the loop
AfterMetadata(skip_images, links) ==
    IF skip_images THEN "complete"
    ELSE IF links # <<>> THEN "download"
    ELSE "complete"

\* save_metadata with its error printed instead of returned
SaveMetadataIgnoringErrors ==
    /\ pc = "save_metadata"
    /\ \E outcome \in {"ok", "serialize_err", "write_err"} :
        CASE outcome = "ok" ->
                /\ info_txt' = Some(property_metadata)
                /\ trace' = Append(trace, Event("write_info", "", 0, "ok"))
          [] outcome = "serialize_err" ->
                UNCHANGED <<info_txt, trace>>
          [] outcome = "write_err" ->
                /\ info_txt' \in FailedWrite(info_txt, EmptyInfo)
                /\ UNCHANGED trace
    /\ pc' = AfterMetadata(args.skip_images, image_links)
    /\ UNCHANGED <<args, page, run, exit_code, dirs, page_html, images, fetched, locals, first_run>>

\* save_metadata(&property_metadata, &base_dir).await?: serialize, then write
SaveMetadata ==
    /\ pc = "save_metadata"
    /\ \E outcome \in {"ok", "serialize_err", "write_err"} :
        CASE outcome = "ok" ->
                /\ info_txt' = Some(property_metadata)
                /\ trace' = Append(trace, Event("write_info", "", 0, "ok"))
                /\ pc' = AfterMetadata(args.skip_images, image_links)
                /\ UNCHANGED exit_code
          [] outcome = "serialize_err" ->
                /\ Abort
                /\ UNCHANGED <<info_txt, trace>>
          [] outcome = "write_err" ->
                /\ info_txt' \in FailedWrite(info_txt, EmptyInfo)
                /\ Abort
                /\ UNCHANGED trace
    /\ UNCHANGED <<args, page, run, dirs, page_html, images, fetched, locals, first_run>>

\* How download_file(client, url, path) can end: one of the three `?` before
\* the write returns (send() fails, error_for_status rejects the response, or
\* bytes() cannot read the body: "http_err"), fs::write fails ("write_err"), or
\* the body is saved ("ok").
DownloadOutcomes == {"http_err", "write_err", "ok"}

\* download_file returning early when its path exists
DownloadFileSkippingExisting(old, path, outcome, body) ==
    IF path \in DOMAIN old THEN {old}
    ELSE CASE outcome = "ok" -> {(path :> body) @@ old}
           [] outcome = "write_err" -> {old} \cup {(path :> "") @@ old}
           [] OTHER -> {old}

\* The content of the directory images/ after download_file(.., path) ended
\* with `outcome`, the response body being `body`
download_file(old, path, outcome, body) ==
    CASE outcome = "ok" -> {(path :> body) @@ old}
      [] outcome = "write_err" ->
            {old} \cup {(path :> "") @@ old}
      [] OTHER -> {old}

\* The sleep condition off by one: if i < total_links
SleepFollowsEveryItem(pos, total_links) == pos < total_links

\* if i < total_links - 1 { sleep }
SleepFollows(pos, total_links) == pos < total_links - 1

\* The loop body with download_file(..).await? in place of the if-let-Err
DownloadAbortingOnError ==
    /\ pc = "download"
    /\ i < Len(image_links)
    /\ \E outcome \in DownloadOutcomes, body \in Bodies :
        /\ images' \in download_file(images, file_path(i), outcome, body)
        /\ trace' = Append(trace,
                Event("download", image_links[i + 1], file_path(i),
                      IF outcome = "ok" THEN body ELSE outcome))
        /\ IF outcome # "ok"
           THEN Abort /\ UNCHANGED i
           ELSE /\ UNCHANGED exit_code
                /\ IF SleepFollows(i, Len(image_links))
                   THEN pc' = "sleep" /\ UNCHANGED i
                   ELSE pc' = "complete" /\ i' = i + 1
    /\ UNCHANGED <<args, page, run, dirs, page_html, info_txt, fetched,
                   html, image_links, property_metadata, first_run>>

\* One pass of the loop body up to the sleep: download_file for the link at
\* position i, the error only printed (lines 195-201)
Download ==
    /\ pc = "download"
    /\ i < Len(image_links)
    /\ \E outcome \in DownloadOutcomes, body \in Bodies :
        /\ images' \in download_file(images, file_path(i), outcome, body)
        /\ trace' = Append(trace,
                Event("download", image_links[i + 1], file_path(i),
                      IF outcome = "ok" THEN body ELSE outcome))
    /\ IF SleepFollows(i, Len(image_links))
       THEN pc' = "sleep" /\ UNCHANGED i
       ELSE pc' = "complete" /\ i' = i + 1
    /\ UNCHANGED <<args, page, run, exit_code, dirs, page_html, info_txt, fetched,
                   html, image_links, property_metadata, first_run>>

\* tokio::time::sleep(Duration::from_secs(args.delay)).await, then the next item
Sleep ==
    /\ pc = "sleep"
    /\ trace' = Append(trace, Event("sleep", "", args.delay, "ok"))
    /\ i' = i + 1
    /\ pc' = "download"
    /\ UNCHANGED <<args, page, run, exit_code, disk, fetched, html, image_links,
                   property_metadata, first_run>>

\* println!("Scraping complete!"); Ok(())
Complete ==
    /\ pc = "complete"
    /\ pc' = "exited"
    /\ exit_code' = Some(0)
    /\ UNCHANGED <<args, page, run, disk, fetched, locals, trace, first_run>>

\* The same command line is run again over the same page: a new process, with
\* the disk as the first run left it.
RunAgain ==
    /\ pc = "exited"
    /\ run = "first"
    /\ run' = "second"
    /\ first_run' = [image_links |-> image_links, images |-> images,
                     extracted |-> Did("write_page")]
    /\ pc' = "create_dirs"
    /\ exit_code' = None
    /\ fetched' = "none"
    /\ html' = <<>>
    /\ image_links' = <<>>
    /\ property_metadata' = NoMetadata
    /\ i' = 0
    /\ trace' = <<>>
    /\ UNCHANGED <<args, page, disk>>

Next ==
    \/ CreateDirs
    \/ BuildClient
    \/ GetHtml
    \/ WritePage
    \/ Extract
    \/ SaveMetadata
    \/ Download
    \/ Sleep
    \/ Complete
    \/ RunAgain

Spec == Init /\ [][Next]_vars

-----------------------------------------------------------------------------
(* Properties *)

Downloads == Events("download")
Sleeps == Events("sleep")

\* main is in the download loop, or has been
InLoop == pc \in {"download", "sleep"}
LoopStarted == InLoop \/ Did("download")

\* An event with the given operation comes before position k of the trace
Before(k, op) == \E j \in 1..(k - 1) : trace[j].op = op

\* The distinct links of a page
UniqueLinks(h) == Range(IMAGE_LINK_RE_captures_iter(h))

\* The matches of IMAGE_LINK_RE in order of first occurrence
RECURSIVE FirstOccurrences(_)
FirstOccurrences(s) ==
    IF s = <<>> THEN <<>>
    ELSE LET init == FirstOccurrences(SubSeq(s, 1, Len(s) - 1))
             last == s[Len(s)]
         IN  IF last \in Range(init) THEN init ELSE Append(init, last)

\* This run has computed image_links
Extracted == Did("write_page") /\ pc # "extract"

C3_Deduplication ==
    LET d == Downloads IN
    /\ \A j, k \in DOMAIN d : j # k => d[j].link # d[k].link /\ d[j].n # d[k].n
    /\ exit_code = Some(0) /\ ~args.skip_images =>
        \A l \in UniqueLinks(html) :
            Cardinality({k \in DOMAIN d : d[k].link = l}) = 1

\* C3 witness: a page that repeats a link, and a finished run with one attempt.
C3_Witness ==
    /\ exit_code = Some(0)
    /\ ~args.skip_images
    /\ Len(IMAGE_LINK_RE_captures_iter(html)) > Cardinality(UniqueLinks(html))
    /\ Len(Downloads) = 1

\* C4 (as claimed): when the page request ends in a network error or in a
\* response with a non-success status, or the local file cannot be read, the
\* run exits non-zero and has written neither page.html nor the metadata nor
\* any image.
C4_PageFetchFailureFatal ==
    fetched \in {"send_err", "text_err", "status_not_success", "read_err"} =>
        /\ exit_code = Some(1)
        /\ ~Did("write_page")
        /\ ~Did("write_info")
        /\ ~Did("download")

\* C5: the download attempts of a run are the links of image_links, one attempt
\* each, in list order, whatever the outcomes; from the first pass of the loop
\* on the run cannot fail and can always take its next step; and it exits with
\* code 0 after exactly one attempt per link.
C5_FailureIsolation ==
    LET d == Downloads IN
    /\ Len(d) <= Len(image_links)
    /\ \A k \in DOMAIN d : d[k].link = image_links[k] /\ d[k].n = file_path(k - 1)
    /\ pc = "download" => Len(d) = i
    /\ pc = "sleep" => Len(d) = i + 1
    /\ LoopStarted =>
        /\ exit_code # Some(1)
        /\ pc # "exited" => ENABLED (Download \/ Sleep \/ Complete)
        /\ pc \in {"complete", "exited"} => Len(d) = Len(image_links)
        /\ pc = "exited" => exit_code = Some(0)

\* C5 witness: a run of two links whose downloads both failed has exited 0.
C5_Witness ==
    /\ exit_code = Some(0)
    /\ Len(Downloads) = 2
    /\ \A k \in DOMAIN Downloads : Downloads[k].res \notin Bodies

\* C6: among the download and sleep events of a run, downloads and sleeps
\* alternate, starting with a download: a sleep comes only directly after a
\* download attempt, failed or not.  Every sleep lasts args.delay seconds,
\* there are never more sleeps than links minus one, and a run that exits with
\* K >= 1 attempts has slept K - 1 times; with no attempt it has not slept.
C6_InterDownloadDelay ==
    LET ds == SelectSeq(trace, LAMBDA e : e.op \in {"download", "sleep"})
        K  == Len(Downloads)
    IN  /\ \A k \in DOMAIN ds : (ds[k].op = "download") <=> (k % 2 = 1)
        /\ \A k \in DOMAIN Sleeps : Sleeps[k].n = args.delay
        /\ Len(Sleeps) <= (IF image_links = <<>> THEN 0 ELSE Len(image_links) - 1)
        /\ pc = "sleep" => Len(Sleeps) = K - 1
        /\ pc \in {"complete", "exited"} =>
                Len(Sleeps) = (IF K = 0 THEN 0 ELSE K - 1)

\* C6 witness: a finished run of two links, the first attempt failed, one sleep
\* of the given delay between the two.
C6_Witness ==
    /\ exit_code = Some(0)
    /\ args.delay = 2
    /\ Len(Downloads) = 2
    /\ Downloads[1].res \notin Bodies
    /\ Len(Sleeps) = 1
    /\ Sleeps[1].n = 2
    /\ trace[Len(trace)].op = "download"

\* C7: a first run (fresh output directory) with --skip-images attempts no
\* download and never has a file in images/; when it has exited with success
\* images/ exists and is empty, page.html holds the page, and info.txt holds
\* the metadata with the number of distinct image links of the page.
C7_SkipImages ==
    args.skip_images /\ run = "first" =>
        /\ ~LoopStarted
        /\ images = <<>>
        /\ exit_code = Some(0) =>
            /\ dirs
            /\ page_html = Some(page)
            /\ info_txt = Some(extract_metadata(page, args.url, Cardinality(UniqueLinks(page))))
            /\ info_txt[1].num_images =
                 Some("Number of unique images found: "
                        \o ToString(Cardinality(UniqueLinks(page))))

\* C7 witness: a finished --skip-images run over a page with two links.
C7_Witness ==
    /\ args.skip_images
    /\ run = "first"
    /\ exit_code = Some(0)
    /\ Cardinality(UniqueLinks(page)) = 2
    /\ images = <<>>

AddressFields == {"street", "city", "state", "zip", "mls"}

\* C8: in the metadata a run has extracted, the five address fields are all
\* present or all absent; the price is present exactly when PRICE_RE matches
\* the page and the address exactly when ST_CITY_STATE_ZIP_RE does, each
\* whatever the other lookup found.
C8_PartialMetadata ==
    Extracted =>
        LET md == property_metadata IN
        /\ \/ \A f \in AddressFields : md[f] # None
           \/ \A f \in AddressFields : md[f] = None
        /\ md.price # None <=> PRICE_RE_captures(html) # None
        /\ md.street # None <=> ST_CITY_STATE_ZIP_RE_captures(html) # None
        /\ Did("write_info") => info_txt = Some(md)

\* C8 witness: the saved metadata of a page with a price row and no title: a
\* price and no address field.
C8_WitnessPriceOnly ==
    /\ Did("write_info")
    /\ info_txt[1].price = Some("Price: $450,000")
    /\ \A f \in AddressFields : info_txt[1][f] = None

\* C9: the first effect of a run is the creation of the directories; every
\* download attempt comes after the write of page.html and the write of
\* info.txt; while the run is in the loop and ever after, page.html holds the
\* page and info.txt the metadata; and without a saved info.txt the run never
\* enters the loop.
C9_WriteOrdering ==
    /\ trace # <<>> => trace[1].op = "mkdir" /\ dirs
    /\ \A k \in DOMAIN trace :
        /\ trace[k].op = "write_info" => Before(k, "write_page")
        /\ trace[k].op = "download" => Before(k, "write_page") /\ Before(k, "write_info")
    /\ LoopStarted =>
        /\ dirs
        /\ page_html = Some(html)
        /\ info_txt = Some(property_metadata)
    /\ ~Did("write_info") => ~LoopStarted

\* C9 witness: the loop is between two attempts, with both files on disk.
C9_Witness ==
    /\ pc = "sleep"
    /\ Did("download")
    /\ page_html = Some(page)
    /\ info_txt # None

\* C10 (as claimed): the link at position n of image_links is the n-th distinct
\* link of the page in order of first occurrence, and a second run over the
\* same page computes the same image_links as the first.
C10_StableNumbering ==
    Extracted =>
        /\ image_links = FirstOccurrences(IMAGE_LINK_RE_captures_iter(html))
        /\ run = "second" /\ first_run.extracted => image_links = first_run.image_links

====
